---- MODULE Spec2Model ----
(***************************************************************************)
(* Model of the VivoAssist terminal chat loop (app/chat/chat_engine.py):   *)
(* the manual matcher, the sticky/active manual scope, the per-scope       *)
(* engine cache and what a turn prints.                                    *)
(*                                                                         *)
(* Python strings are modelled as sequences of one-character strings, so   *)
(* that normalisation, tokenisation and difflib's similarity ratio are     *)
(* computed rather than assumed.  Python floats are modelled as exact      *)
(* rationals [n |-> numerator, d |-> denominator].                         *)
(***************************************************************************)
EXTENDS Integers, Sequences, FiniteSets, TLC

\* ------------------------------------------------------------------------
\* Bounds of the model
\* ------------------------------------------------------------------------
\* number of input lines read by the chat loop
MaxTurns == 3
\* number of source fragments attached to one answer
MaxFrags == 1

\* LET x == v IN F(x), with v evaluated once whatever the number of uses of x
Let(v, F(_)) == CHOOSE r \in { F(x) : x \in {v} } : TRUE

\* ------------------------------------------------------------------------
\* Python values
\* ------------------------------------------------------------------------
\* Python's None; no string (a sequence of single characters) equals it
None == << "<None>" >>

LowerLetters ==
  << "a","b","c","d","e","f","g","h","i","j","k","l","m",
     "n","o","p","q","r","s","t","u","v","w","x","y","z" >>

UpperLetters ==
  << "A","B","C","D","E","F","G","H","I","J","K","L","M",
     "N","O","P","Q","R","S","T","U","V","W","X","Y","Z" >>

Digits == { "0","1","2","3","4","5","6","7","8","9" }

Whitespace == { " ", "\t" }

\* [a-z0-9]
IsLowerAlnum(c) == (\E i \in 1..26 : LowerLetters[i] = c) \/ c \in Digits

\* str.lower() on one character
LowerChar(c) ==
  IF \E i \in 1..26 : UpperLetters[i] = c
  THEN LowerLetters[CHOOSE i \in 1..26 : UpperLetters[i] = c]
  ELSE c

\* str.lower()
Lower(s) == [i \in 1..Len(s) |-> LowerChar(s[i])]

\* str.strip()
RECURSIVE LStrip(_)
LStrip(s) ==
  IF s # << >> /\ Head(s) \in Whitespace THEN LStrip(Tail(s)) ELSE s

RECURSIVE RStrip(_)
RStrip(s) ==
  IF s # << >> /\ s[Len(s)] \in Whitespace
  THEN RStrip(SubSeq(s, 1, Len(s) - 1))
  ELSE s

Strip(s) == RStrip(LStrip(s))

\* str.split(): the maximal runs of non-whitespace characters
RECURSIVE SplitFrom(_, _, _)
SplitFrom(s, cur, acc) ==
  IF s = << >>
  THEN IF cur = << >> THEN acc ELSE Append(acc, cur)
  ELSE IF Head(s) \in Whitespace
       THEN SplitFrom(Tail(s), << >>,
                      IF cur = << >> THEN acc ELSE Append(acc, cur))
       ELSE SplitFrom(Tail(s), Append(cur, Head(s)), acc)

Split(s) == SplitFrom(s, << >>, << >>)

\* a[i:] == b  for some i with room for b (Python's  b in a)
IsSubstr(b, a) ==
  \E i \in 0..(Len(a) - Len(b)) : SubSeq(a, i + 1, i + Len(b)) = b

StartsWith(s, p) == Len(s) >= Len(p) /\ SubSeq(s, 1, Len(p)) = p

\* ------------------------------------------------------------------------
\* Rationals standing for Python floats
\* ------------------------------------------------------------------------
RECURSIVE GCD(_, _)
GCD(a, b) == IF b = 0 THEN a ELSE Let(a % b, LAMBDA c : GCD(b, c))

\* n/d in lowest terms, for n >= 0 and d > 0
Frac(n, d) ==
  Let(<< n, d >>, LAMBDA p :
    Let(GCD(p[1], p[2]), LAMBDA g :
      IF p[1] = 0 THEN [n |-> 0, d |-> 1]
      ELSE [n |-> p[1] \div g, d |-> p[2] \div g]))

RAdd(x, y) ==
  Let(<< x, y >>, LAMBDA p :
    Frac(p[1].n * p[2].d + p[2].n * p[1].d, p[1].d * p[2].d))
RMul(x, y) ==
  Let(<< x, y >>, LAMBDA p : Frac(p[1].n * p[2].n, p[1].d * p[2].d))
RLt(x, y)  == Let(<< x, y >>, LAMBDA p : p[1].n * p[2].d < p[2].n * p[1].d)
RLe(x, y)  == Let(<< x, y >>, LAMBDA p : p[1].n * p[2].d <= p[2].n * p[1].d)
RMax(x, y) == Let(<< x, y >>, LAMBDA p : IF RLt(p[1], p[2]) THEN p[2] ELSE p[1])
RMin(x, y) == Let(<< x, y >>, LAMBDA p : IF RLt(p[2], p[1]) THEN p[2] ELSE p[1])
RZero == [n |-> 0, d |-> 1]
ROne  == [n |-> 1, d |-> 1]

AUTO_LOCK_THRESHOLD == Frac(72, 100)
SUGGEST_THRESHOLD   == Frac(55, 100)

\* ------------------------------------------------------------------------
\* Manual matching
\* ------------------------------------------------------------------------
\* re.sub(r"[^a-z0-9]+", " ", s): every maximal run of other characters
\* becomes one space
RECURSIVE SubNonAlnum(_, _)
SubNonAlnum(s, acc) ==
  IF s = << >> THEN acc
  ELSE IF IsLowerAlnum(Head(s))
       THEN SubNonAlnum(Tail(s), Append(acc, Head(s)))
       ELSE IF acc # << >> /\ acc[Len(acc)] = " "
            THEN SubNonAlnum(Tail(s), acc)
            ELSE SubNonAlnum(Tail(s), Append(acc, " "))

_normalize(s) ==
  Strip(SubNonAlnum(Lower(IF s = None THEN << >> ELSE s), << >>))

\* length of the common run of a from i and b from j
RECURSIVE RunLen(_, _, _, _)
RunLen(a, b, i, j) ==
  IF i > Len(a) \/ j > Len(b) \/ a[i] # b[j]
  THEN 0
  ELSE 1 + RunLen(a, b, i + 1, j + 1)

\* SequenceMatcher.find_longest_match without junk: the longest matching
\* block, the one starting earliest in a, then earliest in b
LongestMatch(a, b) ==
  Let({ [i |-> i, j |-> j, k |-> RunLen(a, b, i, j)] :
          i \in 1..Len(a), j \in 1..Len(b) },
      LAMBDA blocks :
        CHOOSE m \in blocks :
          \A o \in blocks :
            \/ o.k < m.k
            \/ o.k = m.k /\ m.i < o.i
            \/ o.k = m.k /\ m.i = o.i /\ m.j <= o.j)

\* sum of the sizes of SequenceMatcher.get_matching_blocks()
RECURSIVE Matches(_, _)
Matches(a, b) ==
  IF a = << >> \/ b = << >> THEN 0
  ELSE Let(LongestMatch(a, b), LAMBDA lm :
         IF lm.k = 0 THEN 0
         ELSE lm.k
              + Let(<< SubSeq(a, 1, lm.i - 1), SubSeq(b, 1, lm.j - 1) >>,
                    LAMBDA left : Matches(left[1], left[2]))
              + Let(<< SubSeq(a, lm.i + lm.k, Len(a)),
                       SubSeq(b, lm.j + lm.k, Len(b)) >>,
                    LAMBDA right : Matches(right[1], right[2])))

\* SequenceMatcher(None, a, b).ratio()
_similar(a, b) ==
  Let(<< a, b >>, LAMBDA p :
    IF Len(p[1]) + Len(p[2]) = 0 THEN ROne
    ELSE Frac(2 * Matches(p[1], p[2]), Len(p[1]) + Len(p[2])))

\* [t for t in toks if len(t) >= n]
FilterLen(toks, n) == SelectSeq(toks, LAMBDA t : Len(t) >= n)

\* tokens of at least n characters, or all tokens when there is none
TokensOrAll(s, n) ==
  Let(Split(s), LAMBDA toks :
    Let(FilterLen(toks, n), LAMBDA long :
      IF long # << >> THEN long ELSE toks))

\* max over the manual's tokens of the similarity to query token qt
RECURSIVE BestTokenSim(_, _, _)
BestTokenSim(qt, m_tokens, best_t) ==
  IF m_tokens = << >> THEN best_t
  ELSE Let(RMax(best_t, _similar(qt, Head(m_tokens))), LAMBDA t :
         BestTokenSim(qt, Tail(m_tokens), t))

RECURSIVE RSum(_)
RSum(xs) ==
  IF xs = << >> THEN RZero
  ELSE Let(RSum(Tail(xs)), LAMBDA rest : RAdd(Head(xs), rest))

\* average of the best per-token similarities
TokensAvg(q_tokens, m_tokens) ==
  Let(<< q_tokens, m_tokens >>, LAMBDA p :
    Let([i \in 1..Len(p[1]) |-> BestTokenSim(p[1][i], p[2], RZero)],
        LAMBDA per_token_best :
          RMul(RSum(per_token_best),
               Frac(1, IF Len(per_token_best) > 1
                       THEN Len(per_token_best) ELSE 1))))

\* mutant of LiteralBonus: the bonus is not capped
LiteralBonusUncapped(q_tokens, mn) ==
  Let(Len(SelectSeq(q_tokens, LAMBDA qt : IsSubstr(qt, mn) /\ Len(qt) >= 6)),
      LAMBDA hits : Frac(8 * hits, 100))

\* 0.08 per query token of length >= 6 found in the manual name, at most 0.24
LiteralBonus(q_tokens, mn) ==
  Let(Len(SelectSeq(q_tokens, LAMBDA qt : IsSubstr(qt, mn) /\ Len(qt) >= 6)),
      LAMBDA hits : RMin(Frac(8 * hits, 100), Frac(24, 100)))

\* the score of one manual for the normalised query
ManualScore(qn, q_tokens, m) ==
  Let(_normalize(m), LAMBDA mn :
    Let(_similar(qn, mn), LAMBDA s_full :
      Let(TokensAvg(q_tokens, TokensOrAll(mn, 3)), LAMBDA s_tokens_avg :
        RAdd(RAdd(RMul(Frac(55, 100), s_full),
                  RMul(Frac(40, 100), s_tokens_avg)),
             LiteralBonus(q_tokens, mn)))))

\* mutant of BestLoop: an equal score replaces the best as well
RECURSIVE BestLoopLastWins(_, _, _, _, _)
BestLoopLastWins(qn, q_tokens, ms, best_manual, best_score) ==
  IF ms = << >> THEN [manual |-> best_manual, score |-> best_score]
  ELSE Let(ManualScore(qn, q_tokens, Head(ms)), LAMBDA score :
         IF RLe(best_score, score)
         THEN BestLoopLastWins(qn, q_tokens, Tail(ms), Head(ms), score)
         ELSE BestLoopLastWins(qn, q_tokens, Tail(ms), best_manual, best_score))

\* the loop over the manuals: a strictly higher score replaces the best
RECURSIVE BestLoop(_, _, _, _, _)
BestLoop(qn, q_tokens, ms, best_manual, best_score) ==
  IF ms = << >> THEN [manual |-> best_manual, score |-> best_score]
  ELSE Let(ManualScore(qn, q_tokens, Head(ms)), LAMBDA score :
         IF RLt(best_score, score)
         THEN BestLoop(qn, q_tokens, Tail(ms), Head(ms), score)
         ELSE BestLoop(qn, q_tokens, Tail(ms), best_manual, best_score))

best_manual_match_with_score(q, ms) ==
  Let(_normalize(q), LAMBDA qn :
    IF qn = << >> THEN [manual |-> None, score |-> RZero]
    ELSE Let(TokensOrAll(qn, 4), LAMBDA q_tokens :
           Let(BestLoop(qn, q_tokens, ms, None, RZero), LAMBDA r :
             [manual |-> r.manual, score |-> RMin(r.score, ROne)])))

\* ------------------------------------------------------------------------
\* Strings of the program and of the modelled inputs
\* ------------------------------------------------------------------------
NOT_FOUND == << "N", "o", "t", " ", "f", "o", "u", "n", "d", " ", "i", "n", " ", "t", "h", "e", " ", "m", "a", "n", "u", "a", "l", "." >>
UNKNOWN == << "u", "n", "k", "n", "o", "w", "n" >>

W_exit == << "e", "x", "i", "t" >>
W_quit == << "q", "u", "i", "t" >>
W_hi == << "h", "i" >>
W_hello == << "h", "e", "l", "l", "o" >>
W_hey == << "h", "e", "y" >>
W_who == << "w", "h", "o", " ", "a", "r", "e", " ", "y", "o", "u" >>
W_help == << "h", "e", "l", "p" >>
W_list == << "l", "i", "s", "t", " ", "m", "a", "n", "u", "a", "l", "s" >>
W_unlock == << "u", "n", "l", "o", "c", "k" >>
W_clear == << "c", "l", "e", "a", "r", " ", "l", "o", "c", "k" >>
W_use == << "u", "s", "e", " " >>
W_lock == << "l", "o", "c", "k", " " >>

\* manual identifiers (file names): two known manuals, one that is in no cache
GMDSS == << "g", "m", "d", "s", "s", ".", "p", "d", "f" >>
STARLINK == << "s", "t", "a", "r", "l", "i", "n", "k", ".", "p", "d", "f" >>
GHOST == << "r", "a", "d", "a", "r", ".", "p", "d", "f" >>

\* the lines typed at the prompt
L_exit == << "e", "x", "i", "t" >>
L_hi == << "h", "i" >>
L_list == << "l", "i", "s", "t", " ", "m", "a", "n", "u", "a", "l", "s" >>
L_unlock == << " ", "U", "n", "l", "o", "c", "k" >>
L_use_gmdss == << "u", "s", "e", " ", "g", "m", "d", "s", "s" >>
L_lock_starlink == << "L", "o", "c", "k", " ", " ", "s", "t", "a", "r", "l", "i", "n", "k" >>
L_use_gms == << "u", "s", "e", " ", "g", "m", "s" >>
L_use_star == << "u", "s", "e", " ", "s", "t", "a", "r" >>
Q_gmdss == << "G", "M", "D", "S", "S", "?" >>
Q_starlink == << "s", "t", "a", "r", "l", "i", "n", "k" >>
Q_gmds == << "g", "m", "d", "s" >>
Q_star == << "s", "t", "a", "r" >>
Q_mark == << "?" >>
L_use_bare == << "u", "s", "e" >>
L_lock_bare == << "l", "o", "c", "k", " " >>
Q_compound == << "w", "h", "a", "t", " ", "m", "o", "d", "e", "l", "s", " ", "d", "o", " ", "y", "o", "u", " ", "h", "a", "v", "e", " ", "a", "n", "d", " ", "w", "h", "a", "t", " ", "i", "s", " ", "4", "w", "d", " ", "l", "o", "c", "k" >>

Lines ==
  { L_exit, L_hi, L_list, L_unlock,
    L_use_gmdss, L_lock_starlink, L_use_gms, L_use_star,
    Q_gmdss, Q_starlink, Q_gmds, Q_star, Q_mark,
    L_use_bare, L_lock_bare, Q_compound }

\* the answer texts the answer service may produce
T_ok == << "O", "k", "." >>
T_nf == << " ", "N", "o", "t", " ", "f", "o", "u", "n", "d", " ", "i", "n", " ", "t", "h", "e", " ", "m", "a", "n", "u", "a", "l", ".", " " >>
Texts == { T_ok, T_nf }

\* page labels of a fragment: none, or a number
P_1 == << "1" >>
PageLabels == { None, P_1 }

\* metadata of the fragments the answer service may attach to an answer
Fragments == [file_name : {GMDSS, STARLINK}, page_label : PageLabels]

RECURSIVE SeqsUpTo(_, _)
SeqsUpTo(S, n) ==
  IF n = 0 THEN { << >> }
  ELSE SeqsUpTo(S, n - 1)
       \cup { Append(s, x) : s \in { t \in SeqsUpTo(S, n - 1) : Len(t) = n - 1 },
                             x \in S }

\* what engine.chat may return
Responses == [text : Texts, source_nodes : SeqsUpTo(Fragments, MaxFrags)]

\* the key sets of models_cache the chat may be started with
ModelsCaches == { {}, {GMDSS, STARLINK} }

\* the manual_id arguments the chat may be started with
StartManualIds == { None, GMDSS, GHOST }

\* ------------------------------------------------------------------------
\* Python helpers used by the chat loop
\* ------------------------------------------------------------------------
\* bool(x) of an Optional[str]
Truthy(x) == x # None /\ x # << >>

\* code point order of the characters of the model
CharOrder ==
  << "\t", " ", "-", ".", "0", "1", "2", "3", "4", "5", "6", "7", "8", "9", "?" >>
  \o UpperLetters \o << "_" >> \o LowerLetters

CharCode(c) == CHOOSE i \in 1..Len(CharOrder) : CharOrder[i] = c

\* a < b on Python strings
RECURSIVE StrLess(_, _)
StrLess(a, b) ==
  IF b = << >> THEN FALSE
  ELSE IF a = << >> THEN TRUE
  ELSE IF Head(a) = Head(b) THEN StrLess(Tail(a), Tail(b))
  ELSE CharCode(Head(a)) < CharCode(Head(b))

\* sorted(S) of a set of strings
RECURSIVE Sorted(_)
Sorted(S) ==
  IF S = {} THEN << >>
  ELSE LET m == CHOOSE x \in S : \A y \in S \ {x} : StrLess(x, y)
       IN  << m >> \o Sorted(S \ {m})

\* s.split(maxsplit=1): the first word and, when there is one, the rest
RECURSIVE DropWord(_)
DropWord(s) ==
  IF s = << >> \/ Head(s) \in Whitespace THEN s ELSE DropWord(Tail(s))

SplitMax1(s) ==
  LET a    == LStrip(s)
      rest == LStrip(DropWord(a))
      word == SubSeq(a, 1, Len(a) - Len(DropWord(a)))
  IN  IF a = << >> THEN << >>
      ELSE IF rest = << >> THEN << word >>
      ELSE << word, rest >>

\* the strings the matcher is called with: questions and lock targets
MatchInputs ==
  { Strip(l) : l \in Lines }
  \cup { SplitMax1(Strip(l))[2] : l \in { x \in Lines : Len(SplitMax1(Strip(x))) = 2 } }

\* best_manual_match_with_score for every (query, cache keys) pair of S, as
\* an explicit table
RECURSIVE MatchRows(_)
MatchRows(S) ==
  IF S = {} THEN << >>
  ELSE LET p == CHOOSE y \in S : TRUE
       IN  (p :> best_manual_match_with_score(p[1], Sorted(p[2])))
           @@ MatchRows(S \ {p})

\* the matcher, evaluated once for the inputs of the model
MatchTable == MatchRows(MatchInputs \X ModelsCaches)

\* ------------------------------------------------------------------------
\* State of run_terminal_chat
\* ------------------------------------------------------------------------
VARIABLES
  models_cache,    \* the keys of the models_cache argument
  debug,           \* the debug argument
  sticky_manual,   \* the lock set by manual_id or by use/lock
  engine_cache,    \* active manual (or None) -> chat engine
  log,             \* one entry per line read: what the turn was
  before,          \* sticky_manual and engine_cache when the line was read
  last,            \* the turn just handled: its input, decisions and prints
  pc,              \* "chat" in the loop, "done" after exit, "crashed"
  call,            \* a function called on its own: its name and arguments
  ret              \* the progress and the result of that call

\* the variables of run_terminal_chat
chatVars ==
  << models_cache, debug, sticky_manual, engine_cache, log, before, last, pc >>

vars == << chatVars, call, ret >>

\* no function is called on its own
NoCall == [fn |-> "none"]
NoRet == [done |-> FALSE]

\* sorted((models_cache or {}).keys())
manuals == Sorted(models_cache)

Match(q) == MatchTable[<< q, models_cache >>]

\* one printed item
Item(kind, text, pages) == [kind |-> kind, text |-> text, pages |-> pages]

\* mutant of _build_engine: the retriever is built without the manual filter
BuildEngineUnfiltered(manual_id) ==
  [filter  |-> None,
   prompt  |-> IF Truthy(manual_id) THEN manual_id ELSE None,
   history |-> << >>]

\* the retriever filter and the condense prompt of a new engine; its chat
\* history, the turns it has answered, starts empty
_build_engine(manual_id) ==
  [filter  |-> IF Truthy(manual_id) THEN manual_id ELSE None,
   prompt  |-> IF Truthy(manual_id) THEN manual_id ELSE None,
   history |-> << >>]

\* mutant of LockAccepts: the explicit lock asks for the auto-lock confidence
LockAcceptsAutoOnly(m) == Truthy(m.manual) /\ RLe(AUTO_LOCK_THRESHOLD, m.score)

\* the explicit lock accepts the match
LockAccepts(m) == Truthy(m.manual) /\ RLe(SUGGEST_THRESHOLD, m.score)

\* mutant of DecideManual: the matcher is consulted also when a lock is set
DecideManualIgnoringLock(sticky, q) ==
  IF Truthy(Match(q).manual) /\ RLe(AUTO_LOCK_THRESHOLD, Match(q).score)
  THEN Match(q).manual
  ELSE sticky

\* mutant of DecideManual: a match of the suggest band is adopted too
DecideManualFromSuggest(sticky, q) ==
  IF ~Truthy(sticky)
     /\ Truthy(Match(q).manual)
     /\ RLe(SUGGEST_THRESHOLD, Match(q).score)
  THEN Match(q).manual
  ELSE sticky

\* the manual a question is answered against
DecideManual(sticky, q) ==
  IF ~Truthy(sticky)
     /\ Truthy(Match(q).manual)
     /\ RLe(AUTO_LOCK_THRESHOLD, Match(q).score)
  THEN Match(q).manual
  ELSE sticky

\* the prints of the manual decision, made only in debug mode
DecidePrints(sticky, q) ==
  IF ~Truthy(sticky) /\ debug /\ Truthy(Match(q).manual)
  THEN IF RLe(AUTO_LOCK_THRESHOLD, Match(q).score)
       THEN << Item("using", Match(q).manual, {}) >>
       ELSE IF RLe(SUGGEST_THRESHOLD, Match(q).score)
            THEN << Item("possible_match", Match(q).manual, {}),
                    Item("tip", None, {}) >>
            ELSE << >>
  ELSE << >>

\* mutant of WithEngine: a missing engine is taken from the base engine
WithEngineFromBase(cache, active) ==
  IF active \notin DOMAIN cache
  THEN [k \in DOMAIN cache \cup {active} |->
          IF k = active THEN _build_engine(None) ELSE cache[k]]
  ELSE cache

\* mutant of WithEngine: the engine is built anew at every question
WithEngineRebuilt(cache, active) ==
  [k \in DOMAIN cache \cup {active} |->
     IF k = active THEN _build_engine(active) ELSE cache[k]]

\* the engine cache after the engine of the active manual is looked up
WithEngine(cache, active) ==
  IF active \notin DOMAIN cache
  THEN [k \in DOMAIN cache \cup {active} |->
          IF k = active THEN _build_engine(active) ELSE cache[k]]
  ELSE cache

\* mutant of AfterChat: all engines share one chat memory
AfterChatSharedMemory(cache, active, turn) ==
  [k \in DOMAIN cache |-> [cache[k] EXCEPT !.history = Append(@, turn)]]

\* engine.chat: the turn joins the chat history of the engine
AfterChat(cache, active, turn) ==
  [cache EXCEPT ![active].history = Append(@, turn)]

\* (file_name, page) of every source node of the response
_extract_sources(resp) ==
  [i \in 1..Len(resp.source_nodes) |->
     [file |-> IF resp.source_nodes[i].file_name = None
               THEN UNKNOWN ELSE resp.source_nodes[i].file_name,
      page |-> resp.source_nodes[i].page_label]]

\* the files with at least one page, in order of first appearance
RECURSIVE FilesInOrder(_, _)
FilesInOrder(sources, acc) ==
  IF sources = << >> THEN acc
  ELSE IF Truthy(Head(sources).page)
          /\ \A i \in 1..Len(acc) : acc[i] # Head(sources).file
       THEN FilesInOrder(Tail(sources), Append(acc, Head(sources).file))
       ELSE FilesInOrder(Tail(sources), acc)

\* one printed entry per file, with the set of its pages
_print_sources_with_links(sources) ==
  Let(FilesInOrder(sources, << >>), LAMBDA files :
    [i \in 1..Len(files) |->
       Item("source", files[i],
            { sources[j].page : j \in { x \in 1..Len(sources) :
                  sources[x].file = files[i] /\ Truthy(sources[x].page) } })])

\* the answer is the model's refusal
IsNotFound(text) == IsSubstr(Lower(NOT_FOUND), Lower(text))

\* what is printed from the response on
AnswerPrints(resp) ==
  Let(Strip(resp.text), LAMBDA text :
    << Item("answer", text, {}) >>
    \o (IF IsNotFound(text)
        THEN << Item("try_again", None, {}) >>
        ELSE _print_sources_with_links(_extract_sources(resp))))

Turn(op, q, active, sources, out) ==
  [op |-> op, q |-> q, active |-> active, sources |-> sources, out |-> out]

Init ==
  /\ models_cache \in ModelsCaches
  /\ debug \in BOOLEAN
  /\ sticky_manual \in StartManualIds
  /\ engine_cache = [k \in {None} |-> _build_engine(None)]
  /\ log = << >>
  /\ before = [sticky_manual |-> sticky_manual, engine_cache |-> engine_cache]
  /\ last = Turn("start", << >>, None, << >>, << >>)
  /\ pc = "chat"
  /\ call = NoCall
  /\ ret = NoRet

Reading == pc = "chat" /\ Len(log) < MaxTurns

IsExit(q) == Lower(q) \in {W_exit, W_quit}
IsSmallTalk(q) == Lower(q) \in {W_hi, W_hello, W_hey, W_who, W_help}
IsList(q) == StartsWith(Lower(q), W_list)
IsUnlock(q) == Lower(q) \in {W_unlock, W_clear}
IsLock(q) == StartsWith(Lower(q), W_use) \/ StartsWith(Lower(q), W_lock)

\* the branch of the loop body that handles the stripped line q
Branch(q) ==
  IF IsExit(q) THEN "exit"
  ELSE IF IsSmallTalk(q) THEN "smalltalk"
  ELSE IF IsList(q) THEN "list"
  ELSE IF IsUnlock(q) THEN "unlock"
  ELSE IF IsLock(q) THEN "lock"
  ELSE "question"

\* q = input().strip() and its branch, for every line of the model
RECURSIVE LineRows(_)
LineRows(S) ==
  IF S = {} THEN << >>
  ELSE LET raw == CHOOSE y \in S : TRUE
       IN  (raw :> [q |-> Strip(raw), branch |-> Branch(Strip(raw))])
           @@ LineRows(S \ {raw})

LineTable == LineRows(Lines)

\* the sources and the prints of every response of the model
RECURSIVE ResponseRows(_)
ResponseRows(S) ==
  IF S = {} THEN << >>
  ELSE LET resp == CHOOSE y \in S : TRUE
       IN  (resp :> [sources |-> _extract_sources(resp),
                     prints  |-> AnswerPrints(resp)])
           @@ ResponseRows(S \ {resp})

ResponseTable == ResponseRows(Responses)

\* a line is read: the turn is logged with the state it started from
Read(op, active) ==
  /\ Reading
  /\ log' = Append(log, [op |-> op, active |-> active])
  /\ before' = [sticky_manual |-> sticky_manual, engine_cache |-> engine_cache]
  /\ UNCHANGED << call, ret >>

\* a turn that changes neither the lock nor the engines
Command(op, q, out) ==
  /\ Read(op, None)
  /\ last' = Turn(op, q, None, << >>, out)
  /\ UNCHANGED << models_cache, debug, sticky_manual, engine_cache >>

Exit ==
  \E raw \in Lines :
    /\ LineTable[raw].branch = "exit"
    /\ Command("exit", LineTable[raw].q, << >>)
    /\ pc' = "done"

SmallTalk ==
  \E raw \in Lines :
    /\ LineTable[raw].branch = "smalltalk"
    /\ Command("smalltalk", LineTable[raw].q, << Item("intro", None, {}) >>)
    /\ pc' = pc

ListManuals ==
  \E raw \in Lines :
    /\ LineTable[raw].branch = "list"
    /\ Command("list", LineTable[raw].q,
               << Item("manuals_header", None, {}) >>
               \o [i \in 1..Len(manuals) |-> Item("manual", manuals[i], {})])
    /\ pc' = pc

\* the unlock turn, leaving the given lock and engines
UnlockTurn(sticky_after, engines_after) ==
  \E raw \in Lines :
    /\ LineTable[raw].branch = "unlock"
    /\ Read("unlock", None)
    /\ sticky_manual' = sticky_after
    /\ engine_cache' = engines_after
    /\ last' = Turn("unlock", LineTable[raw].q, None, << >>,
                    << Item("lock_cleared", None, {}) >>)
    /\ UNCHANGED << models_cache, debug, pc >>

\* mutant of Unlock: the lock is reported cleared but kept
UnlockKeepsLock == UnlockTurn(sticky_manual, engine_cache)

\* mutant of Unlock: the cached engines are dropped with the lock
UnlockDropsEngines ==
  UnlockTurn(None, [k \in {None} |-> _build_engine(None)])

Unlock == UnlockTurn(None, engine_cache)

ExplicitLock ==
  \E raw \in Lines :
    LET q == LineTable[raw].q IN
    /\ LineTable[raw].branch = "lock"
    /\ Read("lock", None)
    /\ IF Len(SplitMax1(q)) < 2
       THEN \* q.split(maxsplit=1)[1] raises IndexError
            /\ pc' = "crashed"
            /\ last' = Turn("lock", q, None, << >>, << >>)
            /\ UNCHANGED sticky_manual
       ELSE LET m == Match(SplitMax1(q)[2]) IN
            /\ pc' = pc
            /\ sticky_manual' = IF LockAccepts(m) THEN m.manual ELSE sticky_manual
            /\ last' = Turn("lock", q, None, << >>,
                            IF LockAccepts(m)
                            THEN << Item("locked", m.manual, {}) >>
                            ELSE << Item("no_match", None, {}) >>)
    /\ UNCHANGED << models_cache, debug, engine_cache >>

\* a question turn; with adopt the manual the question is answered against
\* would become the lock, which the code never does
QuestionTurn(adopt) ==
  \E raw \in Lines :
    LET q      == LineTable[raw].q
        active == DecideManual(sticky_manual, q)
        turn   == Len(log) + 1
    IN
    /\ LineTable[raw].branch = "question"
    /\ Read("question", active)
    /\ \E resp \in Responses :
         /\ engine_cache' =
              AfterChat(WithEngine(engine_cache, active), active, turn)
         /\ last' = Turn("question", q, active, ResponseTable[resp].sources,
                         DecidePrints(sticky_manual, q)
                         \o (IF debug
                             THEN << Item("active_manual", active, {}),
                                     Item("raw_question", q, {}) >>
                             ELSE << >>)
                         \o ResponseTable[resp].prints)
    /\ sticky_manual' = (IF adopt THEN active ELSE sticky_manual)
    /\ UNCHANGED << models_cache, debug, pc >>

\* mutant of Question: the manual selected for the question becomes the lock
QuestionAdoptsActive == QuestionTurn(TRUE)

\* sticky_manual is not assigned on the question path
Question == QuestionTurn(FALSE)

Next ==
  \/ Exit
  \/ SmallTalk
  \/ ListManuals
  \/ Unlock
  \/ ExplicitLock
  \/ Question

Spec == Init /\ [][Next]_vars

\* ------------------------------------------------------------------------
\* Properties of the chat loop
\* ------------------------------------------------------------------------
\* the turn just handled
Now == Len(log)

Answered == last.op = "question"

\* what the matcher returns for the line of the turn just handled
LastMatch == Match(last.q)

LastMatchAuto ==
  Truthy(LastMatch.manual) /\ RLe(AUTO_LOCK_THRESHOLD, LastMatch.score)

Range(f) == { f[i] : i \in DOMAIN f }

\* the question turns up to turn n that were answered with active manual k
TurnsUnder(k, n) ==
  SelectSeq([t \in 1..n |-> t],
            LAMBDA t : log[t].op = "question" /\ log[t].active = k)

\* the engine of key k, and no other, took the question of this turn
AnsweredBy(k) ==
  /\ k \in DOMAIN engine_cache
  /\ \A e \in DOMAIN engine_cache :
       (Now \in Range(engine_cache[e].history)) <=> (e = k)

\* the chat history the answering engine held when the question reached it
HistBefore ==
  SelectSeq(engine_cache[last.active].history, LAMBDA t : t # Now)

\* an unlock was typed after the previous question (or before any question)
UnlockedSinceQuestion ==
  \E u \in 1..(Now - 1) :
    /\ log[u].op = "unlock"
    /\ \A t \in (u + 1)..(Now - 1) : log[t].op # "question"

\* there is an earlier question, and the last one had another active manual
ScopeChanged ==
  \E p \in 1..(Now - 1) :
    /\ log[p].op = "question"
    /\ \A t \in (p + 1)..(Now - 1) : log[t].op # "question"
    /\ log[p].active # last.active

\* C1: once a manual is forced (sticky_manual set by use/lock or at start),
\* a question is answered against it whatever the matcher returns for the
\* question, and only a use/lock or unlock turn changes sticky_manual.
C1_ForcedScopeIsKept ==
  /\ (Answered /\ Truthy(before.sticky_manual)) =>
       /\ last.active = before.sticky_manual
       /\ sticky_manual = before.sticky_manual
       /\ AnsweredBy(before.sticky_manual)
       /\ engine_cache[before.sticky_manual].filter = before.sticky_manual
  /\ (Now > 0 /\ sticky_manual # before.sticky_manual) =>
       last.op \in {"lock", "unlock"}

\* a question that matches starlink.pdf at auto-lock confidence, asked right
\* after gmdss.pdf was locked
C1_Witness ==
  /\ Answered
  /\ Now >= 2 /\ log[Now - 1].op = "lock"
  /\ before.sticky_manual = GMDSS
  /\ LastMatch.manual = STARLINK
  /\ RLe(AUTO_LOCK_THRESHOLD, LastMatch.score)

\* C2 (as claimed): in a turn with an active manual no source of another
\* manual is displayed.
C2_NoForeignSourceShown ==
  (Answered /\ Truthy(last.active)) =>
    \A i \in 1..Len(last.out) :
      last.out[i].kind = "source" => last.out[i].text = last.active

\* the refusal text C3 speaks of: "Not found in the requested manual."
REFUSAL == << "N", "o", "t", " ", "f", "o", "u", "n", "d", " ", "i", "n", " ", "t", "h", "e", " ", "r", "e", "q", "u", "e", "s", "t", "e", "d", " ", "m", "a", "n", "u", "a", "l", "." >>

\* C3 (as claimed): when the active manual is set and a source fragment is
\* from another manual, the only answer output is the fixed refusal.
C3_ForeignSourcesRefused ==
  (/\ Answered
   /\ Truthy(last.active)
   /\ \E i \in 1..Len(last.sources) : last.sources[i].file # last.active) =>
    SelectSeq(last.out, LAMBDA it : it.kind \in {"answer", "source"})
      = << Item("answer", REFUSAL, {}) >>

\* C4: a use/lock turn sets sticky_manual to the matched manual exactly when
\* the match of its target has confidence >= SUGGEST_THRESHOLD; otherwise it
\* prints the no-match message and keeps sticky_manual; either way no engine
\* is built or asked.
C4_LockCommand ==
  last.op = "lock" =>
    /\ pc = "chat"
    /\ Len(SplitMax1(last.q)) = 2
    /\ engine_cache = before.engine_cache
    /\ IF /\ Truthy(Match(SplitMax1(last.q)[2]).manual)
          /\ RLe(SUGGEST_THRESHOLD, Match(SplitMax1(last.q)[2]).score)
       THEN /\ sticky_manual = Match(SplitMax1(last.q)[2]).manual
            /\ last.out = << Item("locked", sticky_manual, {}) >>
       ELSE /\ sticky_manual = before.sticky_manual
            /\ last.out = << Item("no_match", None, {}) >>

\* a lock accepted with a confidence of the suggest band
C4_Witness ==
  /\ last.op = "lock"
  /\ before.sticky_manual # GMDSS
  /\ sticky_manual = GMDSS
  /\ RLt(Match(SplitMax1(last.q)[2]).score, AUTO_LOCK_THRESHOLD)

\* C5: an unlock turn leaves sticky_manual None from any state, and an
\* unlock right after an unlock changes neither the lock nor the engines and
\* the loop goes on.
C5_UnlockClears ==
  last.op = "unlock" =>
    /\ sticky_manual = None
    /\ pc = "chat"
    /\ engine_cache = before.engine_cache
    /\ last.out = << Item("lock_cleared", None, {}) >>
    /\ (Now >= 2 /\ log[Now - 1].op = "unlock") =>
         sticky_manual = before.sticky_manual

\* lock, unlock, unlock
C5_Witness ==
  /\ Now = 3
  /\ log[1].op = "lock" /\ log[2].op = "unlock" /\ log[3].op = "unlock"
  /\ last.op = "unlock"

C8_HistoryPerScope ==
  /\ \A k \in DOMAIN engine_cache :
       engine_cache[k].history = TurnsUnder(k, Now)
  /\ \A t \in 1..Now :
       log[t].op = "question" => log[t].active \in DOMAIN engine_cache

\* two questions under one manual with a question under another in between
C8_Witness ==
  /\ Now = 3
  /\ GMDSS \in DOMAIN engine_cache
  /\ engine_cache[GMDSS].history = << 1, 3 >>
  /\ log[2].op = "question"

\* C9: with no lock set, a question whose match has confidence >=
\* AUTO_LOCK_THRESHOLD is answered by the engine filtered to that manual.
C9_AutoMatchedQuestion ==
  (Answered /\ ~Truthy(before.sticky_manual) /\ LastMatchAuto) =>
    /\ last.active = LastMatch.manual
    /\ AnsweredBy(LastMatch.manual)
    /\ engine_cache[LastMatch.manual].filter = LastMatch.manual

C9_Witness ==
  /\ Answered /\ ~Truthy(before.sticky_manual) /\ LastMatchAuto
  /\ LastMatch.manual = STARLINK

C11_AutoScopeIsPerTurn ==
  Answered =>
    /\ sticky_manual = before.sticky_manual
    /\ (~Truthy(before.sticky_manual) /\ ~LastMatchAuto) =>
         /\ last.active = None
         /\ AnsweredBy(None)
         /\ engine_cache[None].filter = None

\* an unlocked question below the threshold right after an auto-matched one
C11_Witness ==
  /\ Answered /\ ~LastMatchAuto
  /\ before.sticky_manual = None
  /\ Now >= 2 /\ log[Now - 1].op = "question"
  /\ log[Now - 1].active = STARLINK
  /\ last.active = None

\* C12: every engine of engine_cache retrieves with the filter of its key:
\* the manual for a manual key, none for the key None; the engine that
\* answered the turn is the one stored under the turn's active manual.
C12_FilterIsCacheKey ==
  /\ \A k \in DOMAIN engine_cache :
       engine_cache[k].filter = (IF Truthy(k) THEN k ELSE None)
  /\ None \in DOMAIN engine_cache
  /\ Answered => AnsweredBy(last.active)

\* engines for both manuals and the unfiltered one are cached
C12_Witness ==
  /\ Answered
  /\ DOMAIN engine_cache = { None, GMDSS, STARLINK }

\* the text a question turn passes to engine.chat: the stripped line itself
Asked == last.q

\* "use" or "lock" with nothing after it
MalformedLock(q) == Lower(q) \in { RStrip(W_use), RStrip(W_lock) }

\* C20 (as claimed): a use/lock line without a target is reported, changes
\* neither sticky_manual nor engine_cache, and no engine is asked.
C20_MalformedLockIsNoOp ==
  (Now > 0 /\ MalformedLock(last.q)) =>
    /\ last.op # "question"
    /\ last.out # << >>
    /\ sticky_manual = before.sticky_manual
    /\ engine_cache = before.engine_cache

\* the text of s after the first occurrence of w, or None without one
RECURSIVE After(_, _)
After(s, w) ==
  IF Len(s) < Len(w) THEN None
  ELSE IF StartsWith(s, w) THEN SubSeq(s, Len(w) + 1, Len(s))
  ELSE After(Tail(s), w)

\* the position of the first occurrence of w in s, or 0 without one
Find(s, w) ==
  IF After(s, w) = None THEN 0 ELSE Len(s) - Len(After(s, w)) - Len(w) + 1

W_and == << " ", "a", "n", "d", " " >>
W_then == << " ", "t", "h", "e", "n", " " >>
W_models == << "m", "o", "d", "e", "l", "s" >>
W_manuals == << "m", "a", "n", "u", "a", "l", "s" >>
W_what == << "w", "h", "a", "t" >>
W_page == << "p", "a", "g", "e" >>
W_what_does == << "w", "h", "a", "t", " ", "d", "o", "e", "s" >>

\* an inventory question as the splitter of the specification sees it: an
\* intent word with a subject word and no page-specific pattern
InventoryFlavoured(q) ==
  /\ \E w \in { W_what, W_list } : IsSubstr(w, Lower(q))
  /\ \E w \in { W_models, W_manuals } : IsSubstr(w, Lower(q))
  /\ \A w \in { W_page, W_what_does } : ~IsSubstr(w, Lower(q))

\* the remainder of a compound question: the trimmed text after the first
\* "and"/"then" when it has at least 5 characters, else empty
Remainder(q) ==
  LET ia   == Find(q, W_and)
      it   == Find(q, W_then)
      conj == IF ia = 0 THEN W_then
              ELSE IF it = 0 \/ ia < it THEN W_and ELSE W_then
      rest == IF ia = 0 /\ it = 0 THEN << >> ELSE Strip(After(q, conj))
  IN  IF Len(rest) >= 5 THEN rest ELSE << >>

\* C17 (as claimed): of an inventory question with a remainder only the
\* remainder is passed to retrieval; one without remainder is not passed to
\* retrieval at all.
C17_CompoundQuestionIsSplit ==
  (Now > 0 /\ InventoryFlavoured(last.q)) =>
    IF Remainder(last.q) # << >>
    THEN Answered /\ Asked = Remainder(last.q)
    ELSE ~Answered

\* C23: in every reachable state of the chat loop the sticky manual is none
\* or one of the known manuals (a key of models_cache), from the initial
\* state on and whatever manual_id the chat was started with.
C23_StickyIsKnownManual ==
  pc \in { "chat", "done", "crashed" } =>
    sticky_manual = None \/ sticky_manual \in models_cache

\* ------------------------------------------------------------------------
\* best_manual_match_with_score called on its own
\* ------------------------------------------------------------------------
\* run_terminal_chat is not running
ChatOff ==
  /\ models_cache = {}
  /\ debug = FALSE
  /\ sticky_manual = None
  /\ engine_cache = [k \in {None} |-> _build_engine(None)]
  /\ log = << >>
  /\ before = [sticky_manual |-> sticky_manual, engine_cache |-> engine_cache]
  /\ last = Turn("start", << >>, None, << >>, << >>)
  /\ pc = "off"

\* further manual file names
AB == << "a", "b", ".", "p", "d", "f" >>
IOM_X == << "i", "o", "m", "_", "x", ".", "p", "d", "f" >>
SR == << "s", "t", "a", "r", "l", "i", "n", "k", "_", "r", "o", "u", "t", "e", "r", ".", "p", "d", "f" >>
SR2 == << "s", "t", "a", "r", "l", "i", "n", "k", "-", "r", "o", "u", "t", "e", "r", "-", "2", ".", "p", "d", "f" >>
GMDSS_UP == << "G", "M", "D", "S", "S", ".", "p", "d", "f" >>

\* Path(file_name).stem: the name without its last suffix
RECURSIVE LastDot(_, _)
LastDot(s, i) ==
  IF i <= 1 THEN 0 ELSE IF s[i] = "." THEN i ELSE LastDot(s, i - 1)

Stem(file_name) ==
  IF LastDot(file_name, Len(file_name)) = 0 THEN file_name
  ELSE SubSeq(file_name, 1, LastDot(file_name, Len(file_name)) - 1)

\* re.sub(r"\s+", " ", s)
RECURSIVE CollapseSpace(_, _)
CollapseSpace(s, acc) ==
  IF s = << >> THEN acc
  ELSE IF Head(s) \notin Whitespace
       THEN CollapseSpace(Tail(s), Append(acc, Head(s)))
       ELSE IF acc # << >> /\ acc[Len(acc)] = " "
            THEN CollapseSpace(Tail(s), acc)
            ELSE CollapseSpace(Tail(s), Append(acc, " "))

\* the readable title of a manual: separators of the stem become spaces
_title_from_filename(file_name) ==
  Strip(CollapseSpace(
    Strip([i \in 1..Len(Stem(file_name)) |->
             IF Stem(file_name)[i] \in {"-", "_"} THEN " "
             ELSE Stem(file_name)[i]]),
    << >>))

\* a query that names one manual four times
Q_starlink4 == << "s", "t", "a", "r", "l", "i", "n", "k", " ", "s", "t", "a", "r", "l", "i", "n", "k", " ", "s", "t", "a", "r", "l", "i", "n", "k", " ", "s", "t", "a", "r", "l", "i", "n", "k" >>

\* the candidate lists and the queries the matcher is called with
MatcherLists ==
  { << >>, << GMDSS, STARLINK >>, << STARLINK, GMDSS >>, << AB, GMDSS >>,
    << IOM_X >>, << SR2, SR >>, << SR, SR2 >>,
    << GMDSS_UP, GMDSS >>, << GMDSS, GMDSS_UP >> }

MatcherQueries ==
  { _normalize(_title_from_filename(m)) :
      m \in { GMDSS, STARLINK, AB, IOM_X, SR, SR2 } }
  \cup { Q_gmdss, Q_gmds, Q_star, Q_mark, Q_starlink4, << >> }

MatcherInit ==
  /\ ChatOff
  /\ call \in [fn : {"best_manual_match_with_score"},
               q : MatcherQueries, manuals : MatcherLists]
  /\ ret = NoRet

MatcherCall ==
  /\ ~ret.done
  /\ ret' = [done |-> TRUE,
             value |-> best_manual_match_with_score(call.q, call.manuals)]
  /\ UNCHANGED << chatVars, call >>

MatcherSpec == MatcherInit /\ [][MatcherCall]_vars

\* ------------------------------------------------------------------------
\* Properties of best_manual_match_with_score
\* ------------------------------------------------------------------------
MatcherDone == ret.done /\ call.fn = "best_manual_match_with_score"

\* the candidates of the call, by position
Cands == 1..Len(call.manuals)

\* C13 (as claimed): a query equal to the normalised title of a candidate is
\* matched with a confidence of at least AUTO_LOCK_THRESHOLD.
C13_ExactTitleAutoLocks ==
  MatcherDone =>
    \A i \in Cands :
      call.q = _normalize(_title_from_filename(call.manuals[i]))
        => RLe(AUTO_LOCK_THRESHOLD, ret.value.score)

\* the score of candidate i before clamping
RawScore(i) ==
  ManualScore(_normalize(call.q), TokensOrAll(_normalize(call.q), 4),
              call.manuals[i])

\* the first candidate whose score under Score is not below any other's
FirstBest(Score(_)) ==
  CHOOSE i \in Cands :
    /\ \A j \in Cands : RLe(Score(j), Score(i))
    /\ \A j \in 1..(i - 1) : RLt(Score(j), Score(i))

\* the match the claim describes, candidates being compared by Score
MatchBy(Score(_)) ==
  IF \/ _normalize(call.q) = << >>
     \/ \A i \in Cands : Score(i) = RZero
  THEN [manual |-> None, score |-> RZero]
  ELSE [manual |-> call.manuals[FirstBest(Score)],
        score  |-> RMin(Score(FirstBest(Score)), ROne)]

ClampedScore(i) == RMin(RawScore(i), ROne)

\* C14 (as claimed): the first candidate of strictly highest clamped score is
\* returned, or no manual with confidence 0 when no score is above 0.
C14_HighestClampedScoreWins ==
  MatcherDone => ret.value = MatchBy(ClampedScore)

\* C14 (amended): the first candidate of strictly highest score before
\* clamping is returned, with that score clamped to 1.0 as confidence, or no
\* manual with confidence 0 when no score is above 0.
C14_HighestRawScoreWins ==
  MatcherDone => ret.value = MatchBy(RawScore)

\* two candidates of equal score above 0, of which the first is returned
C14_Witness ==
  /\ MatcherDone
  /\ call.manuals = << GMDSS_UP, GMDSS >>
  /\ RawScore(1) = RawScore(2)
  /\ RLt(RZero, RawScore(1))
  /\ ret.value.manual = GMDSS_UP

\* the query tokens that count: those of length >= 4, or all without such
QueryTokens ==
  IF \E i \in DOMAIN Split(_normalize(call.q)) :
       Len(Split(_normalize(call.q))[i]) >= 4
  THEN SelectSeq(Split(_normalize(call.q)), LAMBDA w : Len(w) >= 4)
  ELSE Split(_normalize(call.q))

\* the tokens of a manual name that count: those of length >= 3, or all
NameTokens(m) ==
  IF \E i \in DOMAIN Split(_normalize(m)) : Len(Split(_normalize(m))[i]) >= 3
  THEN SelectSeq(Split(_normalize(m)), LAMBDA w : Len(w) >= 3)
  ELSE Split(_normalize(m))

\* the best similarity of query token qt to a token of manual m
BestSim(qt, m) ==
  IF NameTokens(m) = << >> THEN RZero
  ELSE LET sims == { _similar(qt, NameTokens(m)[j]) : j \in DOMAIN NameTokens(m) }
       IN  CHOOSE x \in sims : \A y \in sims : RLe(y, x)

RECURSIVE SumBestSim(_, _)
SumBestSim(n, m) ==
  IF n = 0 THEN RZero
  ELSE RAdd(SumBestSim(n - 1, m), BestSim(QueryTokens[n], m))

\* the number of counted query tokens of length >= 6 found in the name of m
BonusHits(m) ==
  Cardinality({ i \in DOMAIN QueryTokens :
                  Len(QueryTokens[i]) >= 6
                  /\ IsSubstr(QueryTokens[i], _normalize(m)) })

\* 0.55 * s_full + 0.40 * s_tokens_avg + literal_bonus as the claim states it
StatedScore(m) ==
  RAdd(RAdd(RMul(Frac(55, 100), _similar(_normalize(call.q), _normalize(m))),
            RMul(Frac(40, 100),
                 RMul(SumBestSim(Len(QueryTokens), m),
                      Frac(1, Len(QueryTokens))))),
       IF BonusHits(m) >= 3 THEN Frac(24, 100) ELSE Frac(8 * BonusHits(m), 100))

MaxFiles == 2

_STOPWORDS ==
  { << "p", "d", "f" >>,
    << "m", "a", "n", "u", "a", "l" >>,
    << "o", "w", "n", "e", "r" >>,
    << "o", "w", "n", "e", "r", "s" >>,
    << "g", "u", "i", "d", "e" >>,
    << "h", "a", "n", "d", "b", "o", "o", "k" >>,
    << "u", "s", "e", "r" >>,
    << "u", "s", "e", "r", "s" >>,
    << "e", "d", "i", "t", "i", "o", "n" >>,
    << "v", "e", "r" >>,
    << "v", "e", "r", "s", "i", "o", "n" >>,
    << "r", "e", "v" >> }

\* re.split(r"[^a-zA-Z0-9]+", s) of a lowercased s: the parts between the
\* runs of other characters, empty parts at the ends included
RECURSIVE ReSplit(_, _, _, _)
ReSplit(s, cur, acc, in_sep) ==
  IF s = << >> THEN Append(acc, cur)
  ELSE IF IsLowerAlnum(Head(s))
       THEN ReSplit(Tail(s), Append(cur, Head(s)), acc, FALSE)
       ELSE IF in_sep
            THEN ReSplit(Tail(s), cur, acc, TRUE)
            ELSE ReSplit(Tail(s), << >>, Append(acc, cur), TRUE)

IsDigits(p) == p # << >> /\ \A i \in 1..Len(p) : p[i] \in Digits

\* mutant of _tokenize: numbers of four digits are kept
TokenizeKeepsYears(text) ==
  SelectSeq(ReSplit(Lower(text), << >>, << >>, FALSE),
            LAMBDA p : /\ p # << >>
                       /\ p \notin _STOPWORDS
                       /\ ~(Len(p) < 3))

_tokenize(text) ==
  SelectSeq(ReSplit(Lower(text), << >>, << >>, FALSE),
            LAMBDA p : /\ p # << >>
                       /\ p \notin _STOPWORDS
                       /\ ~(IsDigits(p) /\ Len(p) = 4)
                       /\ ~(Len(p) < 3))

\* ManualEntry of one file
ManualEntry(name) ==
  [file_name |-> name,
   stem      |-> Stem(name),
   tokens    |-> { _tokenize(Stem(name))[i] : i \in DOMAIN _tokenize(Stem(name)) }]

\* the registry: the entries in the order of the sorted file names
build_manual_registry(files) ==
  [i \in 1..Cardinality(files) |-> ManualEntry(Sorted(files)[i])]

\* the *.pdf files a data directory may hold
F_manual_2014 == << "m", "a", "n", "u", "a", "l", "_", "2", "0", "1", "4", ".", "p", "d", "f" >>
F_owners_guide == << "O", "w", "n", "e", "r", "s", "-", "G", "u", "i", "d", "e", "_", "v", "2", ".", "p", "d", "f" >>
F_vezel == << "v", "e", "z", "e", "l", "_", "1", "2", "3", "4", "5", ".", "p", "d", "f" >>
F_rev == << "r", "e", "v", "_", "1", "2", "3", ".", "p", "d", "f" >>
F_handbook == << "u", "s", "e", "r", "s", "_", "h", "a", "n", "d", "b", "o", "o", "k", ".", "p", "d", "f" >>
F_lancer == << "l", "a", "n", "c", "e", "r", "_", "2", "0", "1", "2", "_", "v", "e", "r", ".", "p", "d", "f" >>
F_starlink_gmdss == << "s", "t", "a", "r", "l", "i", "n", "k", "-", "g", "m", "d", "s", "s", ".", "p", "d", "f" >>

PdfFiles ==
  { GMDSS, STARLINK, AB, IOM_X, SR, SR2, GMDSS_UP,
    F_manual_2014, F_owners_guide, F_vezel, F_rev, F_handbook, F_lancer, F_starlink_gmdss }

DataDirs == { d \in SUBSET PdfFiles : Cardinality(d) <= MaxFiles }

RegistryInit ==
  /\ ChatOff
  /\ call \in [fn : {"build_manual_registry"}, files : DataDirs]
  /\ ret = NoRet

RegistryCall ==
  /\ ~ret.done
  /\ ret' = [done |-> TRUE, value |-> build_manual_registry(call.files)]
  /\ UNCHANGED << chatVars, call >>

RegistrySpec == RegistryInit /\ [][RegistryCall]_vars

\* ------------------------------------------------------------------------
\* Properties of the manual registry
\* ------------------------------------------------------------------------
RegistryDone == ret.done /\ call.fn = "build_manual_registry"

IsMaximalRun(s, i, j) ==
  /\ i <= j
  /\ \A k \in i..j : IsLowerAlnum(s[k])
  /\ i = 1 \/ ~IsLowerAlnum(s[i - 1])
  /\ j = Len(s) \/ ~IsLowerAlnum(s[j + 1])

MaximalRuns(s) ==
  { SubSeq(s, ij[1], ij[2]) :
      ij \in { x \in (1..Len(s)) \X (1..Len(s)) : IsMaximalRun(s, x[1], x[2]) } }

\* C16: the tokens of every registry entry hold no stopword, no number of
\* exactly four digits and no string shorter than 3 characters, and hold
\* every other maximal run of letters and digits of the lowercased stem;
\* there is one entry per file of the directory.
C16_RegistryTokens ==
  RegistryDone =>
    /\ { ret.value[i].file_name : i \in DOMAIN ret.value } = call.files
    /\ Len(ret.value) = Cardinality(call.files)
    /\ \A i \in DOMAIN ret.value :
         ret.value[i].tokens =
           { r \in MaximalRuns(Lower(Stem(ret.value[i].file_name))) :
               /\ r \notin _STOPWORDS
               /\ ~(Len(r) = 4 /\ \A k \in 1..4 : r[k] \in Digits)
               /\ Len(r) >= 3 }

\* the registry of manual_2014.pdf and lancer_2012_ver.pdf
C16_Witness ==
  /\ RegistryDone
  /\ call.files = { F_manual_2014, F_lancer }
  /\ ret.value[1].tokens = { << "l", "a", "n", "c", "e", "r" >> }
  /\ ret.value[2].tokens = {}

\* ------------------------------------------------------------------------
\* The simplified token matcher (manual_selector.py)
\* ------------------------------------------------------------------------
\* re.sub(r"\s+", " ", q.strip().lower())
_normalize_question(q) == CollapseSpace(Strip(Lower(q)), << >>)

\* re.findall(r"[a-z0-9]+", q.lower())
_question_words(q) ==
  SelectSeq(ReSplit(Lower(q), << >>, << >>, FALSE), LAMBDA p : p # << >>)

\* \w of the regular expressions, for the characters of a lowercased string
IsWordChar(c) == IsLowerAlnum(c) \/ c = "_"

\* re.search(rf"\b{re.escape(token)}\b", q) for a token of letters and digits
WholeWordIn(token, q) ==
  \E i \in 1..(Len(q) - Len(token) + 1) :
    /\ SubSeq(q, i, i + Len(token) - 1) = token
    /\ i = 1 \/ ~IsWordChar(q[i - 1])
    /\ i + Len(token) - 1 = Len(q) \/ ~IsWordChar(q[i + Len(token)])

\* the fuzzy branch: some word of at least 4 characters is close to the token
FuzzyIn(token, words) ==
  /\ Len(token) >= 4
  /\ \E k \in DOMAIN words :
       /\ Len(words[k]) >= 4
       /\ RLe(Frac(88, 100), _similar(words[k], token))

\* what one token adds to the score of its manual
TokenScore(token, q, words) ==
  IF WholeWordIn(token, q) THEN ROne
  ELSE IF FuzzyIn(token, words) THEN Frac(9, 10)
  ELSE RZero

\* the tokens of an entry that set `matched`
HitTokens(tokens, q, words) ==
  { tk \in tokens : WholeWordIn(tk, q) \/ FuzzyIn(tk, words) }

\* score of one manual: the inner loop over entry.tokens
RECURSIVE EntryScore(_, _, _)
EntryScore(tokens, q, words) ==
  IF tokens = {} THEN RZero
  ELSE LET tk == CHOOSE x \in tokens : TRUE
       IN  RAdd(TokenScore(tk, q, words), EntryScore(tokens \ {tk}, q, words))

\* the outer loop over registry.items(): index of the best entry so far
\* (0 for none) and its score
RECURSIVE SelectLoop(_, _, _, _, _)
SelectLoop(registry, q, words, i, best) ==
  IF i > Len(registry) THEN best
  ELSE Let(EntryScore(registry[i].tokens, q, words), LAMBDA score :
         SelectLoop(registry, q, words, i + 1,
                    IF RLt(best.score, score)
                    THEN [idx |-> i, score |-> score]
                    ELSE best))

\* select_manual_from_question: the results the call can return.  The file
\* is determined; the matched token is the last hit in the iteration order
\* of the set entry.tokens, which Python does not fix, so every hit token
\* of the best entry is a possible second component.
select_manual_from_question(question, registry) ==
  Let(_normalize_question(question), LAMBDA q :
    Let(_question_words(q), LAMBDA words :
      Let(SelectLoop(registry, q, words, 1, [idx |-> 0, score |-> RZero]),
          LAMBDA best :
            IF ~RLt(RZero, best.score) THEN { << None, None >> }
            ELSE { << registry[best.idx].file_name, tk >> :
                     tk \in HitTokens(registry[best.idx].tokens, q, words) })))

\* the questions asked
SQ_tie == << "g", "m", "d", "s", "s", " ", "s", "t", "a", "r", "l", "i", "n", "k" >>
SQ_router == << "h", "o", "w", " ", "t", "o", " ", "r", "e", "s", "e", "t", " ", "t", "h", "e", " ", "s", "t", "a", "r", "l", "i", "n", "k", " ", "r", "o", "u", "t", "e", "r" >>
SQ_vezzel == << "v", "e", "z", "z", "e", "l", " ", "f", "a", "u", "l", "t" >>
SQ_under == << "v", "e", "z", "e", "l", "_", "1", "2", "3", "4", "5", " ", "c", "o", "d", "e" >>
SQ_spaces == << " ", "L", "a", "n", "c", "e", "r", " ", "\t", " ", "G", "M", "D", "S", "S", "?", " " >>
SQ_none == << "w", "h", "a", "t", " ", "i", "s", " ", "4", "w", "d", " ", "l", "o", "c", "k" >>
SQ_guide == << "o", "w", "n", "e", "r", "s", " ", "g", "u", "i", "d", "e", " ", "f", "o", "r", " ", "t", "h", "e", " ", "g", "m", "d", "s", "s" >>
SQ_empty == << >>

SelectorQuestions ==
  { SQ_tie, SQ_router, SQ_vezzel, SQ_under, SQ_spaces, SQ_none, SQ_guide, SQ_empty }

SelectorInit ==
  /\ ChatOff
  /\ call \in [fn : {"select_manual_from_question"},
                question : SelectorQuestions,
                registry : { build_manual_registry(d) : d \in DataDirs }]
  /\ ret = NoRet

SelectorCall ==
  /\ ~ret.done
  /\ \E r \in select_manual_from_question(call.question, call.registry) :
       ret' = [done |-> TRUE, value |-> r]
  /\ UNCHANGED << chatVars, call >>

SelectorSpec == SelectorInit /\ [][SelectorCall]_vars

\* ------------------------------------------------------------------------
\* Properties of the simplified token matcher
\* ------------------------------------------------------------------------
SelectorDone == ret.done /\ call.fn = "select_manual_from_question"

SelQ == _normalize_question(call.question)

SelWords == { _question_words(SelQ)[k] : k \in DOMAIN _question_words(SelQ) }

ExactHits(e) == { tk \in e.tokens : WholeWordIn(tk, SelQ) }

FuzzyHits(e) ==
  { tk \in e.tokens \ ExactHits(e) :
      /\ Len(tk) >= 4
      /\ \E w \in SelWords :
           Len(w) >= 4 /\ RLe(Frac(88, 100), _similar(w, tk)) }

\* ten times the cumulative score of the claim, a whole number
Score10(e) == 10 * Cardinality(ExactHits(e)) + 9 * Cardinality(FuzzyHits(e))

LongestHit(e) ==
  CHOOSE n \in 0..30 :
    /\ \A tk \in ExactHits(e) \cup FuzzyHits(e) : Len(tk) <= n
    /\ n = 0 \/ \E tk \in ExactHits(e) \cup FuzzyHits(e) : Len(tk) = n

SelEntries == { call.registry[i] : i \in DOMAIN call.registry }

\* C18: an exact whole-word token adds 1.0, any other token of length >= 4
\* within similarity 0.88 of a question word of length >= 4 adds 0.9; the
\* manual of the highest cumulative score is returned, among manuals of
\* equal score the one whose matched token is longest; no hit, no manual.
C18_SelectorScoringAndTies ==
  SelectorDone =>
    IF \A e \in SelEntries : Score10(e) = 0
    THEN ret.value = << None, None >>
    ELSE \E e \in SelEntries :
           /\ ret.value[1] = e.file_name
           /\ ret.value[2] \in ExactHits(e) \cup FuzzyHits(e)
           /\ \A o \in SelEntries : Score10(o) <= Score10(e)
           /\ \A o \in SelEntries :
                Score10(o) = Score10(e) => LongestHit(o) <= LongestHit(e)

\* what the loop does on a tie: the first manual of the highest score, in
\* registry order, is the one returned
SelectorFirstOfHighestWins ==
  SelectorDone =>
    IF \A e \in SelEntries : Score10(e) = 0
    THEN ret.value = << None, None >>
    ELSE \E i \in DOMAIN call.registry :
           /\ ret.value[1] = call.registry[i].file_name
           /\ ret.value[2] \in ExactHits(call.registry[i])
                               \cup FuzzyHits(call.registry[i])
           /\ \A j \in DOMAIN call.registry :
                Score10(call.registry[j]) <= Score10(call.registry[i])
           /\ \A j \in 1..(i - 1) :
                Score10(call.registry[j]) < Score10(call.registry[i])

\* ------------------------------------------------------------------------
\* The models-cache builder (models_registry.py)
\* ------------------------------------------------------------------------
max_retries == 8
base_sleep == 2
MaxRuns == 2

\* no cache file at cache_path
NoFile == [exists |-> FALSE, data |-> << >>]

\* the cache file after json.dumps(cache) was written to it
FileOf(cache) == [exists |-> TRUE, data |-> cache]

\* mutant of load_models_cache: the file is never read
LoadNothing(file) == << >>

\* load_models_cache: the mapping stored in the file, {} when there is none
load_models_cache(file) ==
  IF file.exists THEN file.data ELSE << >>

\* the subjects parsed from a response, with the pages of its sources in
\* the manual: a response that names the primary subject, and one that
\* says it is not found
SUBJECT == << "G", "M", "D", "S", "S", " ", "S", "y", "s", "t", "e", "m" >>
INFERRED_SUFFIX == << " ", "(", "i", "n", "f", "e", "r", "r", "e", "d", " ", "f", "r", "o", "m", " ", "f", "i", "l", "e", "n", "a", "m", "e", ")" >>
PAGE_1 == << "1" >>

CacheResponses ==
  { [names |-> << SUBJECT >>, pages |-> << PAGE_1 >>],
    [names |-> << >>, pages |-> << >>] }

\* cache[file_name] built from a response
CacheEntry(file_name, resp) ==
  IF resp.names # << >>
  THEN [models |-> [k \in DOMAIN resp.names |->
                      [name |-> resp.names[k], pages |-> resp.pages,
                       inferred |-> FALSE]]]
  ELSE [models |-> << [name |-> _title_from_filename(file_name)
                                  \o INFERRED_SUFFIX,
                       pages |-> << >>, inferred |-> TRUE] >>]

\* min(base_sleep * 2 ** (attempt - 1), 60.0)
SleepSeconds(attempt) ==
  IF base_sleep * 2 ^ (attempt - 1) < 60
  THEN base_sleep * 2 ^ (attempt - 1) ELSE 60

\* `w in msg`
Contains(msg, w) ==
  \E k \in 1..(Len(msg) - Len(w) + 1) : SubSeq(msg, k, k + Len(w) - 1) = w

\* the messages of the exceptions qe.query raises
E_429 == << "E", "r", "r", "o", "r", " ", "c", "o", "d", "e", ":", " ", "4", "2", "9" >>
E_rate == << "R", "a", "t", "e", " ", "l", "i", "m", "i", "t", " ", "i", "s", " ", "e", "x", "c", "e", "e", "d", "e", "d" >>
E_many == << "T", "o", "o", " ", "M", "a", "n", "y", " ", "R", "e", "q", "u", "e", "s", "t", "s" >>
E_throttle == << "R", "e", "q", "u", "e", "s", "t", " ", "w", "a", "s", " ", "t", "h", "r", "o", "t", "t", "l", "e", "d" >>
E_boom == << "C", "o", "n", "n", "e", "c", "t", "i", "o", "n", " ", "r", "e", "s", "e", "t" >>

ErrorMessages == { E_429, E_rate, E_many, E_throttle, E_boom }

\* retryable, from msg = str(e).lower()
Retryable(e) ==
  Let(Lower(e), LAMBDA msg :
    \/ Contains(msg, << "4", "2", "9" >>)
    \/ Contains(msg, << "r", "a", "t", "e", " ", "l", "i", "m", "i", "t" >>)
    \/ Contains(msg, << "t", "o", "o", " ", "m", "a", "n", "y", " ", "r", "e", "q", "u", "e", "s", "t", "s" >>)
    \/ Contains(msg, << "t", "h", "r", "o", "t", "t", "l", "e" >>))

\* no exception so far, no response so far
NoError == [msg |-> None, attempt |-> 0]
NoResponse == [names |-> << None >>, pages |-> << >>]

\* the PDFs of data_dir and the cache file found at the start
CachePdfs == { GMDSS, STARLINK, SR }

CacheDirs == { d \in SUBSET CachePdfs : Cardinality(d) <= MaxFiles }

CacheFiles(d) ==
  { NoFile } \cup
  { FileOf([f \in cached |->
               CacheEntry(f, CHOOSE r \in CacheResponses : r.names # << >>)]) :
      cached \in SUBSET d }

\* the frame of build_models_cache before its loop: the PDFs are sorted
\* and the cache is loaded
StartFrame(d, file) ==
  [done    |-> FALSE,
   status  |-> "loop",
   pdfs    |-> Sorted(d),
   i       |-> 1,
   attempt |-> 0,
   sleeps  |-> << >>,
   errors  |-> << >>,
   last_err |-> NoError,
   outcome |-> "none",
   result  |-> NoResponse,
   cache   |-> load_models_cache(file),
   file    |-> file,
   queried |-> << >>,
   failed  |-> {}]

\* build_models_cache is called for the first time
CacheInit ==
  /\ ChatOff
  /\ \E d \in CacheDirs : \E file \in CacheFiles(d) :
       /\ call = [fn |-> "build_models_cache", data_dir |-> d,
                   cache_file |-> file, run |-> 1]
       /\ ret = StartFrame(d, file)

InLoop == ret.status = "loop" /\ ret.attempt = 0

InQuery == ret.status = "loop" /\ ret.attempt >= 1

\* `if file_name in cache: continue`
CacheSkip ==
  /\ InLoop
  /\ ret.i <= Len(ret.pdfs)
  /\ ret.pdfs[ret.i] \in DOMAIN ret.cache
  /\ ret' = [ret EXCEPT !.i = @ + 1]
  /\ UNCHANGED << chatVars, call >>

\* the manual is not cached: _safe_query is entered
CacheScan ==
  /\ InLoop
  /\ ret.i <= Len(ret.pdfs)
  /\ ret.pdfs[ret.i] \notin DOMAIN ret.cache
  /\ ret' = [ret EXCEPT !.attempt = 1, !.sleeps = << >>, !.errors = << >>,
                         !.last_err = NoError, !.outcome = "running",
                         !.result = NoResponse]
  /\ UNCHANGED << chatVars, call >>

\* qe.query returns: the entry is stored, the file rewritten, next PDF
QueryReturns ==
  /\ InQuery
  /\ \E resp \in CacheResponses :
       LET file_name == ret.pdfs[ret.i]
           cache == [f \in DOMAIN ret.cache \cup {file_name} |->
                       IF f = file_name THEN CacheEntry(file_name, resp)
                       ELSE ret.cache[f]]
       IN  ret' = [ret EXCEPT !.cache = cache,
                              !.file = FileOf(cache),
                              !.queried = Append(@, file_name),
                              !.outcome = "returned",
                              !.result = resp,
                              !.attempt = 0,
                              !.i = @ + 1]
  /\ UNCHANGED << chatVars, call >>

\* the exception leaves _safe_query; build_models_cache does not catch it
Raise(frame) ==
  [frame EXCEPT !.status = "raised", !.done = TRUE, !.outcome = "raised",
                !.failed = @ \cup {frame.pdfs[frame.i]}]

\* mutant of QueryRaised: an error that is not a rate-limit error is
\* raised at once, at the first attempt as well
QueryRaisedNoFirstRetry(e) ==
  LET asked == [ret EXCEPT !.queried = Append(@, ret.pdfs[ret.i]),
                           !.errors = Append(@, Retryable(e)),
                           !.last_err = [msg |-> e, attempt |-> ret.attempt]]
      slept == [asked EXCEPT !.sleeps = Append(@, SleepSeconds(ret.attempt))]
  IN  IF ~Retryable(e) THEN Raise(asked)
      ELSE IF ret.attempt = max_retries THEN Raise(slept)
      ELSE [slept EXCEPT !.attempt = @ + 1]

\* the frame after qe.query raised e: a failure that is not a rate-limit
\* failure is raised again from the second attempt on; otherwise the
\* wrapper sleeps and tries again, and raises the last error after the
\* sleep of the last attempt
QueryRaised(e) ==
  LET asked == [ret EXCEPT !.queried = Append(@, ret.pdfs[ret.i]),
                           !.errors = Append(@, Retryable(e)),
                           !.last_err = [msg |-> e, attempt |-> ret.attempt]]
      slept == [asked EXCEPT !.sleeps = Append(@, SleepSeconds(ret.attempt))]
  IN  IF ~Retryable(e) /\ ret.attempt >= 2 THEN Raise(asked)
      ELSE IF ret.attempt = max_retries THEN Raise(slept)
      ELSE [slept EXCEPT !.attempt = @ + 1]

\* qe.query raises, with a rate-limit message or with another one
QueryRaises ==
  /\ InQuery
  /\ \E e \in ErrorMessages : ret' = QueryRaised(e)
  /\ UNCHANGED << chatVars, call >>

\* the loop is over: `return cache`
CacheReturn ==
  /\ InLoop
  /\ ret.i > Len(ret.pdfs)
  /\ ret' = [ret EXCEPT !.status = "returned", !.done = TRUE]
  /\ UNCHANGED << chatVars, call >>

\* the program is started again: build_models_cache runs on the same
\* directory with the cache file the run before left
CacheRerun ==
  /\ ret.done
  /\ call.run < MaxRuns
  /\ call' = [call EXCEPT !.cache_file = ret.file, !.run = @ + 1]
  /\ ret' = StartFrame(call.data_dir, ret.file)
  /\ UNCHANGED chatVars

CacheNext ==
  \/ CacheSkip
  \/ CacheScan
  \/ QueryReturns
  \/ QueryRaises
  \/ CacheReturn
  \/ CacheRerun

CacheSpec == CacheInit /\ [][CacheNext]_vars

\* ------------------------------------------------------------------------
\* Properties of the models-cache builder
\* ------------------------------------------------------------------------
BuilderOver == call.fn = "build_models_cache" /\ ret.done

\* C19: when a manual's query still fails after its retries, only that
\* manual goes without an entry: once the build is over, every other PDF
\* of the directory has its entry in the cache file.
C19_FailureIsPerManual ==
  BuilderOver =>
    \A f \in call.data_dir \ ret.failed :
      ret.file.exists /\ f \in DOMAIN ret.file.data

\* the _safe_query call made for the current manual, if any
SafeQueryCalled == call.fn = "build_models_cache" /\ ret.outcome # "none"

\* calls of qe.query made by it so far
SafeQueryCalls ==
  Len(ret.errors) + (IF ret.outcome = "returned" THEN 1 ELSE 0)

\* min(base_sleep * 2^(attempt-1), 60) as the least of the two numbers
BackoffSeconds(attempt) ==
  CHOOSE x \in { base_sleep * 2 ^ (attempt - 1), 60 } :
    \A y \in { base_sleep * 2 ^ (attempt - 1), 60 } : x <= y

\* what C21 says of calls, sleeps, the result and the error raised
SafeQueryBounds ==
  /\ SafeQueryCalls <= max_retries
  /\ ret.outcome = "running" => ret.attempt = Len(ret.errors) + 1
  /\ Len(ret.sleeps) >= SafeQueryCalls - 1
  /\ \A k \in DOMAIN ret.sleeps : ret.sleeps[k] = BackoffSeconds(k)
  /\ \A k \in DOMAIN ret.errors :
       ret.errors[k] /\ k < max_retries =>
         k < Len(ret.errors) \/ ret.outcome \in { "running", "returned" }
  /\ ret.outcome = "returned" =>
       /\ ret.result \in CacheResponses
       /\ ret.cache[ret.queried[Len(ret.queried)]]
            = CacheEntry(ret.queried[Len(ret.queried)], ret.result)
  /\ Len(ret.errors) = max_retries => ret.outcome = "raised"
  /\ ret.outcome = "raised" =>
       /\ ret.last_err.attempt = Len(ret.errors)
       /\ Retryable(ret.last_err.msg) = ret.errors[Len(ret.errors)]
       /\ Len(ret.errors) = max_retries \/ ~ret.errors[Len(ret.errors)]

\* C21: _safe_query makes at most max_retries calls, returns the result of
\* the first call that succeeds, retries a rate-limit failure after
\* sleeping min(base_sleep * 2^(attempt-1), 60) seconds, raises the last
\* error once max_retries attempts have failed, and propagates an error
\* that is not a rate-limit error without retrying it.
C21_SafeQueryRetriesRateLimitOnly ==
  SafeQueryCalled =>
    /\ SafeQueryBounds
    /\ \A k \in DOMAIN ret.errors :
         ~ret.errors[k] => k = Len(ret.errors) /\ ret.outcome = "raised"

\* C21 amended: as above, but an error that is not a rate-limit error is
\* retried once, after the first sleep, when it comes at the first
\* attempt; at any later attempt it is propagated without a retry.
C21_SafeQueryRetriesFirstErrorToo ==
  SafeQueryCalled =>
    /\ SafeQueryBounds
    /\ \A k \in DOMAIN ret.errors :
         ~ret.errors[k] /\ k >= 2 =>
           k = Len(ret.errors) /\ ret.outcome = "raised"
    /\ ret.errors # << >> /\ ~ret.errors[1] /\ Len(ret.errors) = 1 =>
         /\ ret.outcome \in { "running", "returned" }
         /\ ret.sleeps = << base_sleep >>

\* a connection error at the first attempt was retried and came again
C21_Witness ==
  /\ SafeQueryCalled
  /\ ret.outcome = "raised"
  /\ ret.errors = << FALSE, FALSE >>
  /\ ret.sleeps = << 2 >>
  /\ ret.last_err = [msg |-> E_boom, attempt |-> 2]

\* the cache the run loaded, read from the file it found
LoadedCache == IF call.cache_file.exists THEN call.cache_file.data ELSE << >>

\* the manuals whose entry this run has stored
Completed ==
  { ret.pdfs[j] : j \in { k \in 1..Len(ret.pdfs) : k < ret.i } }
    \ DOMAIN LoadedCache

\* C22: a manual present in the loaded cache is never queried again and
\* keeps its entry; the file is rewritten after each newly processed
\* manual, so at any moment, an abort included, it holds the entry of every
\* manual completed so far; a run started after an abort therefore queries
\* only the manuals still missing; on normal return every PDF has an entry.
C22_ResumeSafe ==
  call.fn = "build_models_cache" =>
    /\ \A f \in DOMAIN LoadedCache :
         /\ \A k \in DOMAIN ret.queried : ret.queried[k] # f
         /\ f \in DOMAIN ret.cache /\ ret.cache[f] = LoadedCache[f]
         /\ ret.file.exists /\ f \in DOMAIN ret.file.data
         /\ ret.file.data[f] = LoadedCache[f]
    /\ \A f \in Completed :
         /\ ret.file.exists /\ f \in DOMAIN ret.file.data
         /\ ret.file.data[f] = ret.cache[f]
    /\ Completed # {} => ret.file = FileOf(ret.cache)
    /\ \A k \in DOMAIN ret.queried :
         /\ ret.queried[k] \in call.data_dir \ DOMAIN LoadedCache
         /\ \A j \in DOMAIN ret.queried :
              ret.queried[j] = ret.queried[k] /\ j < k =>
                \A n \in j..k : ret.queried[n] = ret.queried[k]
    /\ ret.status = "raised" =>
         \A j \in 1..(ret.i - 1) :
           ret.file.exists /\ ret.pdfs[j] \in DOMAIN ret.file.data
    /\ ret.status = "returned" =>
         \A f \in call.data_dir : f \in DOMAIN ret.cache

\* the first run aborted at starlink.pdf after gmdss.pdf was done; the
\* second run found the entry of gmdss.pdf and queried starlink.pdf only
C22_Witness ==
  /\ call.fn = "build_models_cache"
  /\ call.run = 2
  /\ call.data_dir = { GMDSS, STARLINK }
  /\ DOMAIN LoadedCache = { GMDSS }
  /\ ret.status = "returned"
  /\ ret.queried = << STARLINK >>
  /\ DOMAIN ret.file.data = { GMDSS, STARLINK }

\* ------------------------------------------------------------------------
\* main() (main.py)
\* ------------------------------------------------------------------------
MaxItems == 2

\* AppConfig(): the fields main() reads
AppConfig == [top_k |-> 8, debug |-> TRUE]

\* the parameters of run_terminal_chat: one positional, the others
\* keyword-only, manual_id alone with a default
ChatPositional == << "index" >>
ChatKeywordOnly == { "top_k", "debug", "data_dir", "models_cache", "manual_id" }
ChatDefaults == { "manual_id" }

\* the call main() makes: run_terminal_chat(index, top_k=..., debug=...)
MainChatCall(index) ==
  [positional |-> << index >>,
   keywords   |-> [k \in { "top_k", "debug" } |-> AppConfig[k]]]

\* Python's binding of a call to the parameters: the names left unbound
\* that have no default, and the keywords no parameter takes
MissingArguments(args) ==
  ({ ChatPositional[k] : k \in (Len(args.positional) + 1)..Len(ChatPositional) }
     \cup ChatKeywordOnly)
    \ (DOMAIN args.keywords \cup ChatDefaults)

UnexpectedArguments(args) ==
  { k \in DOMAIN args.keywords :
      k \notin ChatKeywordOnly
      /\ \A j \in (Len(args.positional) + 1)..Len(ChatPositional) :
           ChatPositional[j] # k }

BindsChat(args) ==
  /\ Len(args.positional) <= Len(ChatPositional)
  /\ MissingArguments(args) = {}
  /\ UnexpectedArguments(args) = {}

\* main() is started: the command line, the environment, the Chroma
\* directory found on disk and the number of nodes the manuals give
MainInit ==
  /\ ChatOff
  /\ call \in [fn : {"main"},
                rebuild_index : BOOLEAN,
                env_ok : BOOLEAN,
                chroma_exists : BOOLEAN,
                items : 0..MaxItems,
                nodes : 0..MaxItems]
  /\ ret = [done |-> FALSE, at |-> "config",
             chroma |-> [exists |-> call.chroma_exists,
                         items |-> IF call.chroma_exists THEN call.items ELSE 0],
             index |-> None, error |-> None, out |-> << >>]

MainAt(at) == call.fn = "main" /\ ~ret.done /\ ret.at = at

\* load_config(): RuntimeError when a variable of the environment is missing
MainConfig ==
  /\ MainAt("config")
  /\ ret' = IF call.env_ok
             THEN [ret EXCEPT !.at = "rebuild"]
             ELSE [ret EXCEPT !.done = TRUE, !.error = "RuntimeError"]
  /\ UNCHANGED << chatVars, call >>

\* --rebuild-index: the Chroma directory is deleted when it exists
MainRebuild ==
  /\ MainAt("rebuild")
  /\ ret' = IF call.rebuild_index /\ ret.chroma.exists
             THEN [ret EXCEPT !.at = "chroma",
                              !.chroma = [exists |-> FALSE, items |-> 0],
                              !.out = Append(@, "Rebuilding vector index")]
             ELSE [ret EXCEPT !.at = "chroma"]
  /\ UNCHANGED << chatVars, call >>

\* get_chroma_vector_store: the persistent collection is opened or created
MainChroma ==
  /\ MainAt("chroma")
  /\ ret' = [ret EXCEPT !.at = "index", !.chroma.exists = TRUE]
  /\ UNCHANGED << chatVars, call >>

\* existing > 0: the index is loaded from Chroma
MainLoadIndex ==
  /\ MainAt("index")
  /\ ret.chroma.items > 0
  /\ ret' = [ret EXCEPT !.at = "chat", !.index = "loaded",
                         !.out = Append(@, "Loading index from disk")]
  /\ UNCHANGED << chatVars, call >>

\* the collection is empty: the manuals are loaded, chunked and indexed;
\* build_and_persist_index returns None when there is no node
MainBuildIndex ==
  /\ MainAt("index")
  /\ ret.chroma.items = 0
  /\ ret' = [ret EXCEPT !.at = "chat",
                         !.index = IF call.nodes > 0 THEN "built" ELSE None,
                         !.chroma.items = call.nodes,
                         !.out = @ \o << "Building index", "Saved to Chroma" >>]
  /\ UNCHANGED << chatVars, call >>

\* run_terminal_chat(index, top_k=cfg.top_k, debug=cfg.debug): the call is
\* bound to the parameters; unbound, it raises TypeError before the body
MainChat ==
  /\ MainAt("chat")
  /\ ret' = IF BindsChat(MainChatCall(ret.index))
             THEN [ret EXCEPT !.done = TRUE, !.at = "chatting",
                              !.out = Append(@, "Chat ready")]
             ELSE [ret EXCEPT !.done = TRUE, !.error = "TypeError"]
  /\ UNCHANGED << chatVars, call >>

MainNext ==
  \/ MainConfig
  \/ MainRebuild
  \/ MainChroma
  \/ MainLoadIndex
  \/ MainBuildIndex
  \/ MainChat

MainSpec == MainInit /\ [][MainNext]_vars

\* ------------------------------------------------------------------------
\* Properties of main()
\* ------------------------------------------------------------------------
\* C24: a run of main() that has built or loaded the index enters the chat
\* loop: the call of run_terminal_chat passes every required argument
\* (index, top_k, debug, data_dir, models_cache), and the run ends at
\* "Chat ready", never in an error.
C24_MainEntersChat ==
  call.fn = "main" /\ ret.at \in { "chat", "chatting" } /\ ret.done =>
    /\ { "top_k", "debug", "data_dir", "models_cache" }
         \subseteq DOMAIN MainChatCall(ret.index).keywords
    /\ Len(MainChatCall(ret.index).positional) = 1
    /\ ret.error = None
    /\ ret.at = "chatting"
    /\ ret.out[Len(ret.out)] = "Chat ready"

====
